---- MODULE Spec2Model ----
(***************************************************************************)
(* Model of sensor.py: a GATT service with 7 measurement characteristics.  *)
(* Each characteristic reads a shared JSON record (staleness-checked),     *)
(* encodes one integer field as 4 big-endian bytes, answers ReadValue and  *)
(* pushes the value to subscribers from a self-rescheduling timer.         *)
(***************************************************************************)
EXTENDS Integers, Sequences, FiniteSets, TLC

(***************************************************************************)
(* Program constants                                                       *)
(***************************************************************************)
MEASUREMENT_STALED_SECS == 5000

\* (key, descriptor name) per characteristic; names as code points.
SENSOR_KEY_NAME ==
    << <<"eCO2", <<101, 67, 79, 50, 32, 40, 112, 112, 109, 41>>>>,
       <<"eCH2O", <<101, 67, 72, 50, 79, 32, 40, 112, 112, 109, 41>>>>,
       <<"TVOC", <<84, 86, 79, 67, 32, 40, 112, 112, 109, 41>>>>,
       <<"PM25", <<80, 77, 32, 50, 46, 53, 32, 40, 117, 103, 47, 109, 94, 51, 41>>>>,
       <<"PM10", <<80, 77, 32, 49, 48, 32, 40, 117, 103, 47, 109, 94, 51, 41>>>>,
       <<"Temp", <<84, 101, 109, 112, 101, 114, 97, 116, 117, 114, 101, 32, 40,
                   99, 101, 108, 115, 105, 117, 115, 41>>>>,
       <<"Humi", <<82, 101, 108, 97, 116, 105, 118, 101, 32, 104, 117, 109, 105,
                   100, 105, 116, 121, 32, 40, 37, 41>>>> >>

(***************************************************************************)
(* Bounds of the model                                                     *)
(***************************************************************************)
MaxStamp   == 1   \* record timestamps range over 0..MaxStamp
MaxShift   == 2   \* rotations of the value table used by written records
MaxMissing == 1   \* a written record lacks at most this many metric keys
MaxTimers  == 2   \* armed timers per characteristic
MaxActive  == 1   \* characteristics holding a subscription or a timer

\* The server's clock is followed up to this reading.
Horizon == MEASUREMENT_STALED_SECS + 1

(***************************************************************************)
(* Values                                                                  *)
(***************************************************************************)
\* Python integers are unbounded.  An integer is kept as two limbs,
\* hi * 2^16 + lo with 0 <= lo < 2^16, so that values outside the signed
\* 32-bit range can be written down.
BigInt(hi, lo) == [hi |-> hi, lo |-> lo]

\* 450, 2^31-1, 2^31, 0, -2^31, -3, -2^31-1, 16909060 (0x01020304), -1
Values ==
    << BigInt(0, 450), BigInt(32767, 65535), BigInt(32768, 0), BigInt(0, 0),
       BigInt(-32768, 0), BigInt(-1, 65533), BigInt(-32769, 65535),
       BigInt(258, 772), BigInt(-1, 65535) >>

None == [some |-> FALSE]
Some(v) == [some |-> TRUE, val |-> v]

\* Outcome of a call: a returned value or a raised exception.
Return(v) == [raised |-> FALSE, exc |-> "", val |-> v]
Raise(e) == [raised |-> TRUE, exc |-> e, val |-> None]

Chars == 0 .. (Len(SENSOR_KEY_NAME) - 1)
KeyOf(c) == SENSOR_KEY_NAME[c + 1][1]
NameOf(c) == SENSOR_KEY_NAME[c + 1][2]
Keys == {KeyOf(c) : c \in Chars}

(***************************************************************************)
(* The shared record file                                                  *)
(***************************************************************************)
\* is_file: the path exists; parses: json.load succeeds; obj: the parsed
\* JSON object, a function from its keys to their values.
Absent == [is_file |-> FALSE, parses |-> FALSE, obj |-> <<>>]
Garbage == [is_file |-> TRUE, parses |-> FALSE, obj |-> <<>>]
Json(o) == [is_file |-> TRUE, parses |-> TRUE, obj |-> o]

\* The object written by the capture process: the metric keys outside
\* `missing`, key number i carrying entry i + shift of the value table, and
\* the "time" field when withTime.
Obj(stamp, missing, shift, withTime) ==
    [k \in (Keys \ missing) \cup (IF withTime THEN {"time"} ELSE {}) |->
        IF k = "time" THEN stamp
        ELSE LET c == CHOOSE d \in Chars : KeyOf(d) = k
             IN Values[((c + shift) % Len(Values)) + 1]]

MissingSets == {s \in SUBSET Keys : Cardinality(s) <= MaxMissing}
FirstKeys(j) == {KeyOf(c) : c \in {d \in Chars : d < j}}
Stamps == 0 .. MaxStamp

\* Clock readings: around every timestamp and around timestamp + threshold.
Clock == Stamps \cup
         (MEASUREMENT_STALED_SECS .. (MEASUREMENT_STALED_SECS + MaxStamp + 1))

(***************************************************************************)
(* Pure functions of the program                                           *)
(***************************************************************************)
\* struct.pack with the byte order reversed ('<i').
struct_pack_LittleEndian(v) ==
    IF v.hi < -32768 \/ v.hi > 32767
    THEN Raise("struct.error")
    ELSE LET h == v.hi % 65536
         IN Return(<< v.lo % 256, v.lo \div 256, h % 256, h \div 256 >>)

\* struct.pack('!i', v): 4 bytes, big-endian two's complement; struct.error
\* when v is outside -2^31 .. 2^31-1.
struct_pack(v) ==
    IF v.hi < -32768 \/ v.hi > 32767
    THEN Raise("struct.error")
    ELSE LET h == v.hi % 65536
         IN Return(<< h \div 256, h % 256, v.lo \div 256, v.lo % 256 >>)

\* The store read with the staleness test written >=.
SensorService_read_measurement_GE(f, t) ==
    IF ~f.is_file THEN Return(None)
    ELSE IF ~f.parses THEN Raise("JSONDecodeError")
    ELSE IF "time" \notin DOMAIN f.obj THEN Raise("KeyError")
    ELSE IF t - f.obj["time"] >= MEASUREMENT_STALED_SECS THEN Return(None)
    ELSE Return(Some([k \in (DOMAIN f.obj) \ {"time"} |-> f.obj[k]]))

\* The store read without the staleness test.
SensorService_read_measurement_NoStaleCheck(f, t) ==
    IF ~f.is_file THEN Return(None)
    ELSE IF ~f.parses THEN Raise("JSONDecodeError")
    ELSE IF "time" \notin DOMAIN f.obj THEN Raise("KeyError")
    ELSE Return(Some([k \in (DOMAIN f.obj) \ {"time"} |-> f.obj[k]]))

\* The store read without the is_file test: open() fails on a missing file.
SensorService_read_measurement_NoFileCheck(f, t) ==
    IF ~f.is_file THEN Raise("FileNotFoundError")
    ELSE IF ~f.parses THEN Raise("JSONDecodeError")
    ELSE IF "time" \notin DOMAIN f.obj THEN Raise("KeyError")
    ELSE IF t - f.obj["time"] > MEASUREMENT_STALED_SECS THEN Return(None)
    ELSE Return(Some([k \in (DOMAIN f.obj) \ {"time"} |-> f.obj[k]]))

\* SensorService.read_measurement at clock reading t.
SensorService_read_measurement(f, t) ==
    IF ~f.is_file THEN Return(None)
    ELSE IF ~f.parses THEN Raise("JSONDecodeError")
    ELSE IF "time" \notin DOMAIN f.obj THEN Raise("KeyError")
    ELSE IF t - f.obj["time"] > MEASUREMENT_STALED_SECS THEN Return(None)
    ELSE Return(Some([k \in (DOMAIN f.obj) \ {"time"} |-> f.obj[k]]))

\* The characteristic read giving up when the record lacks any metric key.
read_measurement_AnyMissing(c, f, t) ==
    LET m == SensorService_read_measurement(f, t)
    IN IF m.raised THEN m
       ELSE IF ~m.val.some THEN Return(None)
       ELSE IF \E k \in Keys : k \notin DOMAIN m.val.val THEN Return(None)
       ELSE LET p == struct_pack(m.val.val[KeyOf(c)])
            IN IF p.raised THEN p ELSE Return(Some(p.val))

\* MeasurementCharacteristic.read_measurement of characteristic c.
read_measurement(c, f, t) ==
    LET m == SensorService_read_measurement(f, t)
    IN IF m.raised THEN m
       ELSE IF ~m.val.some THEN Return(None)
       ELSE IF KeyOf(c) \notin DOMAIN m.val.val THEN Return(None)
       ELSE LET p == struct_pack(m.val.val[KeyOf(c)])
            IN IF p.raised THEN p ELSE Return(Some(p.val))

\* ReadValue answering with the empty list whatever was read.
Characteristic_ReadValue_Empty(c, f, t) ==
    LET v == read_measurement(c, f, t)
    IN IF v.raised THEN v ELSE Return(<<>>)

\* MeasurementCharacteristic.ReadValue: read_measurement() or [].
Characteristic_ReadValue(c, f, t) ==
    LET v == read_measurement(c, f, t)
    IN IF v.raised THEN v
       ELSE IF v.val.some /\ v.val.val # <<>> THEN Return(v.val.val)
       ELSE Return(<<>>)

\* c.encode() of one character: its UTF-8 bytes.
encode(cp) ==
    IF cp < 128 THEN <<cp>>
    ELSE IF cp < 2048 THEN << 192 + (cp \div 64), 128 + (cp % 64) >>
    ELSE << 224 + (cp \div 4096), 128 + ((cp \div 64) % 64), 128 + (cp % 64) >>

\* MeasurementDescriptor.ReadValue: one dbus.Byte per character of the
\* name; dbus.Byte accepts a bytes object of length 1 only.
Descriptor_ReadValue(c) ==
    IF \E i \in 1 .. Len(NameOf(c)) : Len(encode(NameOf(c)[i])) # 1
    THEN Raise("TypeError")
    ELSE Return([i \in 1 .. Len(NameOf(c)) |-> encode(NameOf(c)[i])[1]])

(***************************************************************************)
(* State                                                                   *)
(***************************************************************************)
VARIABLES
    notifying,  \* notifying[c]: the subscribed flag of characteristic c
    timers,     \* timers[c]: timeout sources armed for characteristic c
    file,       \* the shared record file
    now,        \* time.time()
    last,       \* the last call served: operation, outcome and its effects
    pc,         \* the statement of the module script about to run
    reg,        \* the objects registered with the protocol stack
    rd,         \* a store read followed statement by statement
    hist        \* history: the characteristic whose read last gave no data

vars == << notifying, timers, file, now, last, pc, reg, rd, hist >>

\* Effects of a handler, in the order the handler performs them.
PropertiesChanged(value) == [ev |-> "PropertiesChanged", value |-> value]
TimeoutAdded == [ev |-> "add_timeout", value |-> None]

Call(op, c, r, effects) ==
    [op |-> op, chr |-> c, raised |-> r.raised, exc |-> r.exc, ret |-> r.val,
     effects |-> effects]

NoCall == Call("none", -1, Return(None), <<>>)

\* Characteristic.add_timeout: one more timeout source for c.
add_timeout(t, c) == [t EXCEPT ![c] = @ + 1]

\* The event loop after a timeout callback: the source stays armed when the
\* callback returned true, and is destroyed when it returned false or raised.
dispatch_timeout(t, c, r) ==
    IF ~r.raised /\ r.val THEN t ELSE [t EXCEPT ![c] = @ - 1]

Active == {c \in Chars : notifying[c] \/ timers[c] > 0}

\* The call read the record and found no value: ReadValue returned [], the
\* timer callback pushed an absent value, StartNotify skipped its push.
YieldedNoData(call) ==
    /\ ~call.raised
    /\ \/ call.op = "ReadValue" /\ call.ret = <<>>
       \/ /\ call.op = "set_measurement_callback"
          /\ call.effects # <<>>
          /\ ~call.effects[1].value.some
       \/ call.op = "StartNotify" /\ call.effects = << TimeoutAdded >>

\* History kept only when h.on: the characteristic of the latest call that
\* found no value.
Track(h, call) ==
    IF h.on /\ YieldedNoData(call) THEN [on |-> TRUE, chr |-> call.chr] ELSE h

NoHistory == [on |-> FALSE, chr |-> -1]
Idle == [at |-> "idle", f1 |-> Absent, f2 |-> Absent, f3 |-> Absent,
         m |-> <<>>, out |-> Return(None)]

\* The three steps of SensorService.read_measurement, each on the file or
\* clock as it is when the step runs.
\* MEASUREMENT_JSON.is_file()
read_is_file(f) == f.is_file

\* MEASUREMENT_JSON.open() and json.load(f)
read_open_load(f) ==
    IF ~f.is_file THEN Raise("FileNotFoundError")
    ELSE IF ~f.parses THEN Raise("JSONDecodeError")
    ELSE Return(f.obj)

\* time.time() - m.pop('time') > MEASUREMENT_STALED_SECS, then return m
read_stale_check(m, t) ==
    IF "time" \notin DOMAIN m THEN Raise("KeyError")
    ELSE IF t - m["time"] > MEASUREMENT_STALED_SECS THEN Return(None)
    ELSE Return(Some([k \in (DOMAIN m) \ {"time"} |-> m[k]]))

(***************************************************************************)
(* Handlers, as functions of the state they read                           *)
(***************************************************************************)
\* The timer callback returning True whatever the flag.
set_measurement_callback_AlwaysReschedule(c, n, f, t) ==
    IF n[c]
    THEN LET value == read_measurement(c, f, t)
         IN IF value.raised
            THEN [out |-> value, effects |-> <<>>]
            ELSE [out |-> Return(TRUE),
                  effects |-> << PropertiesChanged(value.val) >>]
    ELSE [out |-> Return(TRUE), effects |-> <<>>]

\* The timer callback returning the negation of the flag.
set_measurement_callback_Inverted(c, n, f, t) ==
    IF n[c]
    THEN LET value == read_measurement(c, f, t)
         IN IF value.raised
            THEN [out |-> value, effects |-> <<>>]
            ELSE [out |-> Return(~n[c]),
                  effects |-> << PropertiesChanged(value.val) >>]
    ELSE [out |-> Return(~n[c]), effects |-> <<>>]

\* The timer callback pushing without looking at the flag.
set_measurement_callback_AlwaysPush(c, n, f, t) ==
    LET value == read_measurement(c, f, t)
    IN IF value.raised
       THEN [out |-> value, effects |-> <<>>]
       ELSE [out |-> Return(n[c]),
             effects |-> << PropertiesChanged(value.val) >>]

\* MeasurementCharacteristic.set_measurement_callback: the timer callback.
set_measurement_callback(c, n, f, t) ==
    IF n[c]
    THEN LET value == read_measurement(c, f, t)
         IN IF value.raised
            THEN [out |-> value, effects |-> <<>>]
            ELSE [out |-> Return(n[c]),
                  effects |-> << PropertiesChanged(value.val) >>]
    ELSE [out |-> Return(n[c]), effects |-> <<>>]

\* StartNotify arming the timer before it attempts the immediate push.
StartNotify_ArmFirst(c, n, tm, f, t) ==
    IF n[c]
    THEN [notifying |-> n, timers |-> tm, out |-> Return(None),
          effects |-> <<>>]
    ELSE LET n1 == [n EXCEPT ![c] = TRUE]
             value == read_measurement(c, f, t)
         IN IF value.raised
            THEN [notifying |-> n1, timers |-> add_timeout(tm, c),
                  out |-> value, effects |-> << TimeoutAdded >>]
            ELSE [notifying |-> n1, timers |-> add_timeout(tm, c),
                  out |-> Return(None),
                  effects |->
                      << TimeoutAdded >> \o
                      (IF value.val.some
                       THEN << PropertiesChanged(value.val) >> ELSE <<>>)]

\* StartNotify setting the flag of the next characteristic as well.
StartNotify_Neighbour(c, n, tm, f, t) ==
    IF n[c]
    THEN [notifying |-> n, timers |-> tm, out |-> Return(None),
          effects |-> <<>>]
    ELSE LET n1 == [n EXCEPT ![c] = TRUE, ![(c + 1) % 7] = TRUE]
             value == read_measurement(c, f, t)
         IN IF value.raised
            THEN [notifying |-> n1, timers |-> tm, out |-> value,
                  effects |-> <<>>]
            ELSE [notifying |-> n1, timers |-> add_timeout(tm, c),
                  out |-> Return(None),
                  effects |->
                      (IF value.val.some
                       THEN << PropertiesChanged(value.val) >> ELSE <<>>)
                      \o << TimeoutAdded >>]

\* MeasurementCharacteristic.StartNotify.
StartNotify(c, n, tm, f, t) ==
    IF n[c]
    THEN [notifying |-> n, timers |-> tm, out |-> Return(None),
          effects |-> <<>>]
    ELSE LET n1 == [n EXCEPT ![c] = TRUE]
             value == read_measurement(c, f, t)
         IN IF value.raised
            THEN [notifying |-> n1, timers |-> tm, out |-> value,
                  effects |-> <<>>]
            ELSE [notifying |-> n1, timers |-> add_timeout(tm, c),
                  out |-> Return(None),
                  effects |->
                      (IF value.val.some
                       THEN << PropertiesChanged(value.val) >> ELSE <<>>)
                      \o << TimeoutAdded >>]

\* MeasurementCharacteristic.StopNotify.
StopNotify(c, n) == [n EXCEPT ![c] = FALSE]

\* The module script with the run loop entered before the advertisement is
\* registered.
main_step_RunFirst(p, interrupted) ==
    CASE p = "app.register" -> "app.run"
      [] p = "adv.register" -> "app.run"
      [] p = "app.run" -> IF interrupted THEN "app.quit" ELSE "app.run"
      [] p = "app.quit" -> "exit"
      [] OTHER -> p

\* The module script: the statement that follows statement p.  app.run()
\* returns only by KeyboardInterrupt, whose handler is app.quit().
main_step(p, interrupted) ==
    CASE p = "app.register" -> "adv.register"
      [] p = "adv.register" -> "app.run"
      [] p = "app.run" -> IF interrupted THEN "app.quit" ELSE "app.run"
      [] p = "app.quit" -> "exit"
      [] OTHER -> p

\* Application.register / Advertisement.register: the object becomes
\* registered with the protocol stack.
register(r, what) == r \cup {what}

\* Application.quit followed by the end of the process: the loop stops and
\* the registrations and timer sources of the process are released.
quit(r, tm) == [reg |-> {}, timers |-> [c \in Chars |-> 0]]

(***************************************************************************)
(* Actions                                                                 *)
(***************************************************************************)
\* A client subscribes to characteristic c.
SubscribeRequest(c) ==
    /\ pc = "app.run"
    /\ notifying[c] \/ (timers[c] < MaxTimers
                        /\ Cardinality(Active \cup {c}) <= MaxActive)
    /\ LET r == StartNotify(c, notifying, timers, file, now)
       IN /\ notifying' = r.notifying
          /\ timers' = r.timers
          /\ last' = Call("StartNotify", c, r.out, r.effects)
    /\ hist' = Track(hist, last')
    /\ UNCHANGED << file, now, pc, reg, rd >>

\* A client unsubscribes from characteristic c.
UnsubscribeRequest(c) ==
    /\ pc = "app.run"
    /\ notifying' = StopNotify(c, notifying)
    /\ last' = Call("StopNotify", c, Return(None), <<>>)
    /\ UNCHANGED << timers, file, now, pc, reg, rd, hist >>

\* A client reads characteristic c.
ReadRequest(c) ==
    /\ pc = "app.run"
    /\ last' = Call("ReadValue", c, Characteristic_ReadValue(c, file, now), <<>>)
    /\ hist' = Track(hist, last')
    /\ UNCHANGED << notifying, timers, file, now, pc, reg, rd >>

\* A client reads the descriptor of characteristic c.
DescriptorReadRequest(c) ==
    /\ pc = "app.run"
    /\ last' = Call("Descriptor.ReadValue", c, Descriptor_ReadValue(c), <<>>)
    /\ UNCHANGED << notifying, timers, file, now, pc, reg, rd, hist >>

\* One armed timeout source of characteristic c fires.
TimeoutFires(c) ==
    /\ pc = "app.run"
    /\ timers[c] > 0
    /\ LET r == set_measurement_callback(c, notifying, file, now)
       IN /\ timers' = dispatch_timeout(timers, c, r.out)
          /\ last' = Call("set_measurement_callback", c, r.out, r.effects)
    /\ hist' = Track(hist, last')
    /\ UNCHANGED << notifying, file, now, pc, reg, rd >>

\* The capture process replaces the record wholesale: a record stamped with
\* the current time that lacks the first j metric keys, or one without the
\* "time" field.
CaptureWrites ==
    /\ \E j \in 0 .. MaxMissing, withTime \in BOOLEAN :
          /\ withTime \/ j = 0
          /\ file' = Json(Obj(now, FirstKeys(j), 0, withTime))
    /\ file' # file
    /\ last' = Call("capture", -1, Return(None), <<>>)
    /\ UNCHANGED << notifying, timers, now, pc, reg, rd, hist >>

\* The record is left with content that is not JSON.
CaptureCorrupts ==
    /\ file # Garbage
    /\ file' = Garbage
    /\ last' = Call("capture", -1, Return(None), <<>>)
    /\ UNCHANGED << notifying, timers, now, pc, reg, rd, hist >>

\* The record file is removed.
CaptureRemoves ==
    /\ file # Absent
    /\ file' = Absent
    /\ last' = Call("capture", -1, Return(None), <<>>)
    /\ UNCHANGED << notifying, timers, now, pc, reg, rd, hist >>

\* Time passes: more than the staleness threshold elapses.
ClockAdvances ==
    /\ now + MEASUREMENT_STALED_SECS + 1 <= Horizon
    /\ now' = now + MEASUREMENT_STALED_SECS + 1
    /\ last' = Call("clock", -1, Return(None), <<>>)
    /\ UNCHANGED << notifying, timers, file, pc, reg, rd, hist >>

\* SensorService.read_measurement applied to the current file and clock.
StoreRead ==
    /\ last' = Call("read_measurement", -1,
                    SensorService_read_measurement(file, now), <<>>)
    /\ UNCHANGED << notifying, timers, file, now, pc, reg, rd, hist >>

\* A store read starts: the existence test.
ReadBegins ==
    /\ rd.at \in {"idle", "done"}
    /\ rd' = [Idle EXCEPT !.at = IF read_is_file(file) THEN "checked" ELSE "done",
                          !.f1 = file]
    /\ last' = Call("is_file", -1, Return(None), <<>>)
    /\ UNCHANGED << notifying, timers, file, now, pc, reg, hist >>

\* The store read opens and parses the file as it is now.
ReadOpens ==
    /\ rd.at = "checked"
    /\ LET r == read_open_load(file)
       IN rd' = IF r.raised
                THEN [rd EXCEPT !.at = "done", !.f2 = file, !.out = r]
                ELSE [rd EXCEPT !.at = "parsed", !.f2 = file, !.m = r.val]
    /\ last' = Call("open", -1, Return(None), <<>>)
    /\ UNCHANGED << notifying, timers, file, now, pc, reg, hist >>

\* The store read tests staleness against the clock as it is now and returns.
ReadFinishes ==
    /\ rd.at = "parsed"
    /\ rd' = [rd EXCEPT !.at = "done", !.f3 = file,
                        !.out = read_stale_check(rd.m, now)]
    /\ last' = Call("read_measurement", -1, rd'.out, <<>>)
    /\ UNCHANGED << notifying, timers, file, now, pc, reg, hist >>

\* app.register(): the service tree is registered.
RegisterApp ==
    /\ pc = "app.register"
    /\ reg' = register(reg, "app")
    /\ pc' = main_step(pc, FALSE)
    /\ last' = Call("app.register", -1, Return(None), <<>>)
    /\ UNCHANGED << notifying, timers, file, now, rd, hist >>

\* adv.register(): the advertisement is registered.
RegisterAdv ==
    /\ pc = "adv.register"
    /\ reg' = register(reg, "adv")
    /\ pc' = main_step(pc, FALSE)
    /\ last' = Call("adv.register", -1, Return(None), <<>>)
    /\ UNCHANGED << notifying, timers, file, now, rd, hist >>

\* KeyboardInterrupt is raised out of app.run().
Interrupt ==
    /\ pc = "app.run"
    /\ pc' = main_step(pc, TRUE)
    /\ last' = Call("KeyboardInterrupt", -1, Raise("KeyboardInterrupt"), <<>>)
    /\ UNCHANGED << notifying, timers, file, now, reg, rd, hist >>

\* app.quit() in the except clause, then the script ends.
Quit ==
    /\ pc = "app.quit"
    /\ LET r == quit(reg, timers)
       IN /\ reg' = r.reg
          /\ timers' = r.timers
    /\ pc' = main_step(pc, FALSE)
    /\ last' = Call("app.quit", -1, Return(None), <<>>)
    /\ UNCHANGED << notifying, file, now, rd, hist >>

(***************************************************************************)
(* Specifications                                                          *)
(***************************************************************************)
\* The server as its run loop starts: the service tree and the advertisement
\* are registered, nothing is subscribed and no timer is armed.
Init ==
    /\ notifying = [c \in Chars |-> FALSE]
    /\ timers = [c \in Chars |-> 0]
    /\ file = Absent
    /\ now = 0
    /\ last = NoCall
    /\ pc = "app.run"
    /\ reg = {"app", "adv"}
    /\ rd = Idle
    /\ hist = NoHistory

Next ==
    \/ \E c \in Chars : SubscribeRequest(c)
    \/ \E c \in Chars : UnsubscribeRequest(c)
    \/ \E c \in Chars : ReadRequest(c)
    \/ \E c \in Chars : DescriptorReadRequest(c)
    \/ \E c \in Chars : TimeoutFires(c)
    \/ CaptureWrites
    \/ CaptureCorrupts
    \/ CaptureRemoves
    \/ ClockAdvances

Spec == Init /\ [][Next]_vars

\* The read path as a function of its inputs: any record file, any clock.
Files ==
    {Absent, Garbage} \cup
    {Json(Obj(stamp, missing, shift, withTime)) :
        stamp \in Stamps, missing \in MissingSets,
        shift \in 0 .. MaxShift, withTime \in BOOLEAN}

InitRead ==
    /\ notifying = [c \in Chars |-> FALSE]
    /\ timers = [c \in Chars |-> 0]
    /\ file \in Files
    /\ now \in Clock
    /\ last = NoCall
    /\ pc = "app.run"
    /\ reg = {"app", "adv"}
    /\ rd = Idle
    /\ hist = NoHistory

NextRead ==
    \/ StoreRead
    \/ \E c \in Chars : ReadRequest(c)
    \/ \E c \in Chars : DescriptorReadRequest(c)

SpecRead == InitRead /\ [][NextRead]_vars

\* The whole script, from its first statement to the end of the process.
InitLife ==
    /\ notifying = [c \in Chars |-> FALSE]
    /\ timers = [c \in Chars |-> 0]
    /\ file = Absent
    /\ now = 0
    /\ last = NoCall
    /\ pc = "app.register"
    /\ reg = {}
    /\ rd = Idle
    /\ hist = NoHistory

NextLife ==
    \/ RegisterApp
    \/ RegisterAdv
    \/ Interrupt
    \/ Quit
    \/ \E c \in Chars : SubscribeRequest(c)
    \/ \E c \in Chars : UnsubscribeRequest(c)
    \/ \E c \in Chars : TimeoutFires(c)
    \/ CaptureWrites
    \/ CaptureRemoves

SpecLife == InitLife /\ [][NextLife]_vars

\* One store read after another, each in three steps, with the capture
\* process and the clock running between the steps.
NextRace ==
    \/ ReadBegins
    \/ ReadOpens
    \/ ReadFinishes
    \/ CaptureWrites
    \/ CaptureRemoves
    \/ ClockAdvances

SpecRace == Init /\ [][NextRace]_vars

\* The run loop with the latest call that found no value remembered.
InitHeal ==
    /\ notifying = [c \in Chars |-> FALSE]
    /\ timers = [c \in Chars |-> 0]
    /\ file = Absent
    /\ now = 0
    /\ last = NoCall
    /\ pc = "app.run"
    /\ reg = {"app", "adv"}
    /\ rd = Idle
    /\ hist = [on |-> TRUE, chr |-> -1]

NextHeal ==
    \/ \E c \in Chars : ReadRequest(c)
    \/ \E c \in Chars : SubscribeRequest(c)
    \/ \E c \in Chars : TimeoutFires(c)
    \/ CaptureWrites
    \/ CaptureRemoves
    \/ ClockAdvances

SpecHeal == InitHeal /\ [][NextHeal]_vars

\* The run loop with its timer sources dispatched fairly: an armed timer
\* fires every NOTIFY_TIMEOUT milliseconds, so it is not postponed for ever.
\* The record file stays absent, so that a subscribed tick reschedules.
NextTimers ==
    \/ \E c \in Chars : SubscribeRequest(c)
    \/ \E c \in Chars : UnsubscribeRequest(c)
    \/ \E c \in Chars : TimeoutFires(c)

SpecTimers ==
    /\ Init
    /\ [][NextTimers]_vars
    /\ \A c \in Chars : WF_vars(TimeoutFires(c))

(***************************************************************************)
(* Properties                                                              *)
(***************************************************************************)
Pushes(effects) ==
    Cardinality({i \in 1 .. Len(effects) : effects[i].ev = "PropertiesChanged"})
Arms(effects) ==
    Cardinality({i \in 1 .. Len(effects) : effects[i].ev = "add_timeout"})

\* The file holds a parsed record with its "time" field.
WellFormed == file.is_file /\ file.parses /\ "time" \in DOMAIN file.obj
Malformed == file.is_file /\ (~file.parses \/ "time" \notin DOMAIN file.obj)
Fresh == WellFormed /\ now - file.obj["time"] <= MEASUREMENT_STALED_SECS

\* A file state that is no file or a whole record with its "time" field,
\* and the metrics such a record holds.
RecordOrAbsent(f) == ~f.is_file \/ (f.parses /\ "time" \in DOMAIN f.obj)
Metrics(f) == [k \in (DOMAIN f.obj) \ {"time"} |-> f.obj[k]]

InRange32(v) == v.hi >= -32768 /\ v.hi <= 32767

\* The record offers characteristic c a value that has a 32-bit encoding.
Available(c) ==
    /\ Fresh
    /\ KeyOf(c) \in DOMAIN file.obj
    /\ InRange32(file.obj[KeyOf(c)])

\* Decoding of a 4-byte big-endian two's-complement payload.
Unpack(b) ==
    LET h == b[1] * 256 + b[2]
    IN BigInt(IF h >= 32768 THEN h - 65536 ELSE h, b[3] * 256 + b[4])

\* C1: two StartNotify calls in succession on one characteristic arm exactly
\* one timer and emit at most one immediate push between them, and the second
\* call changes nothing.
C1_StartNotifyTwice ==
    [][\A c \in Chars :
          (/\ last.op = "StartNotify" /\ last.chr = c
           /\ last'.op = "StartNotify" /\ last'.chr = c)
          => /\ UNCHANGED << notifying, timers, file, now >>
             /\ Arms(last.effects) + Arms(last'.effects) = 1
             /\ Pushes(last.effects) + Pushes(last'.effects) <= 1]_vars

\* C2: when a timer of an unsubscribed characteristic fires (StopNotify was
\* called), the callback emits no push and returns False, and the timer is
\* not rearmed: one timer fewer is armed afterwards.
C2_StopThenFire ==
    [][\A c \in Chars :
          (/\ ~notifying[c]
           /\ last'.op = "set_measurement_callback" /\ last'.chr = c)
          => /\ ~last'.raised
             /\ last'.ret = FALSE
             /\ Pushes(last'.effects) = 0
             /\ timers'[c] = timers[c] - 1]_vars

C2_Witness ==
    /\ last.op = "set_measurement_callback"
    /\ ~last.raised
    /\ last.ret = FALSE
    /\ ~notifying[last.chr]
    /\ timers[last.chr] = 0

\* C3: for a well-formed record with timestamp t, the store read at time now
\* returns the record minus its "time" field when now - t <= 5000 (the
\* boundary included) and returns nothing when now - t > 5000.
C3_StoreRead ==
    (last.op = "read_measurement" /\ WellFormed)
    => /\ ~last.raised
       /\ IF now - file.obj["time"] <= 5000
          THEN /\ last.ret.some
               /\ DOMAIN last.ret.val = (DOMAIN file.obj) \ {"time"}
               /\ \A k \in DOMAIN last.ret.val : last.ret.val[k] = file.obj[k]
          ELSE last.ret = None

C3_Witness ==
    /\ last.op = "read_measurement"
    /\ WellFormed
    /\ now - file.obj["time"] = 5000
    /\ last.ret.some
    /\ "Temp" \in DOMAIN last.ret.val

\* C4 as stated: a characteristic read returns a value only when the record's
\* timestamp is strictly newer than now - threshold; otherwise it yields no
\* data.
C4_StrictlyNewer ==
    (last.op = "ReadValue" /\ WellFormed)
    => /\ (~last.raised /\ last.ret # <<>>)
             => file.obj["time"] > now - MEASUREMENT_STALED_SECS
       /\ ~(file.obj["time"] > now - MEASUREMENT_STALED_SECS)
             => (~last.raised /\ last.ret = <<>>)

\* C4 amended: a characteristic read returns a value only when the record's
\* timestamp is not older than now - threshold (t >= now - threshold); for any
\* record whose timestamp is older than that, every characteristic read
\* yields no data.
C4_NotOlder ==
    (last.op = "ReadValue" /\ WellFormed)
    => /\ (~last.raised /\ last.ret # <<>>)
             => file.obj["time"] >= now - MEASUREMENT_STALED_SECS
       /\ file.obj["time"] < now - MEASUREMENT_STALED_SECS
             => (~last.raised /\ last.ret = <<>>)

C4_Witness ==
    /\ last.op = "ReadValue"
    /\ WellFormed
    /\ file.obj["time"] = now - MEASUREMENT_STALED_SECS
    /\ ~last.raised
    /\ Len(last.ret) = 4

\* C5: when the record is malformed (unparseable, or lacking the "time"
\* field), ReadValue returns an empty response and StartNotify and the timer
\* callback complete without raising.
C5_MalformedYieldsNoData ==
    (Malformed /\ last.op \in {"ReadValue", "StartNotify",
                               "set_measurement_callback"})
    => /\ ~last.raised
       /\ last.op = "ReadValue" => last.ret = <<>>

\* C6: when the record file is absent, ReadValue of each characteristic
\* returns an empty response without error; ReadValue of each descriptor
\* returns the bytes of its label whatever the state of the record file.
C6_AbsentFile ==
    /\ (last.op = "ReadValue" /\ ~file.is_file)
          => (~last.raised /\ last.ret = <<>>)
    /\ last.op = "Descriptor.ReadValue"
          => (~last.raised /\ last.ret = NameOf(last.chr))

C6_Witness ==
    /\ ~file.is_file
    /\ last.op = "ReadValue"
    /\ last.chr = 6
    /\ ~last.raised
    /\ last.ret = <<>>

\* C7: for a fresh record, ReadValue of a characteristic whose key the record
\* lacks returns empty, and ReadValue of a characteristic whose key is present
\* (with a value that has a 32-bit encoding) returns the 4 bytes of that
\* value, most significant first, in two's complement.
C7_MissingKey ==
    (last.op = "ReadValue" /\ Fresh)
    => LET k == KeyOf(last.chr)
       IN IF k \notin DOMAIN file.obj
          THEN ~last.raised /\ last.ret = <<>>
          ELSE InRange32(file.obj[k])
               => /\ ~last.raised
                  /\ Len(last.ret) = 4
                  /\ \A i \in 1 .. 4 : last.ret[i] \in 0 .. 255
                  /\ last.ret[1] * 256 + last.ret[2] = file.obj[k].hi % 65536
                  /\ last.ret[3] * 256 + last.ret[4] = file.obj[k].lo

C7_Witness ==
    /\ last.op = "ReadValue"
    /\ Fresh
    /\ "eCO2" \notin DOMAIN file.obj
    /\ last.chr = 5
    /\ ~last.raised
    /\ Len(last.ret) = 4

\* C8: for every integer stored under the characteristic's key (values
\* outside the signed 32-bit range included), ReadValue returns a zero-length
\* sequence or exactly 4 bytes and never raises.  Stated for the file states
\* that hold a parsed record with its "time" field; the malformed file is the
\* case of C5.
C8_ZeroOrFourBytes ==
    (last.op = "ReadValue" /\ WellFormed)
    => /\ ~last.raised
       /\ Len(last.ret) \in {0, 4}

\* C9: for every value v in the signed 32-bit range, decoding the 4-byte
\* payload that ReadValue produced for v recovers v.
C9_RoundTrip ==
    (/\ last.op = "ReadValue"
     /\ Fresh
     /\ KeyOf(last.chr) \in DOMAIN file.obj
     /\ InRange32(file.obj[KeyOf(last.chr)]))
    => /\ ~last.raised
       /\ Len(last.ret) = 4
       /\ Unpack(last.ret) = file.obj[KeyOf(last.chr)]

C9_Witness ==
    /\ last.op = "ReadValue"
    /\ Fresh
    /\ KeyOf(last.chr) \in DOMAIN file.obj
    /\ file.obj[KeyOf(last.chr)] = BigInt(-1, 65533)
    /\ ~last.raised
    /\ last.ret = << 255, 255, 255, 253 >>

\* C10: a timer of characteristic c is armed only by a StartNotify that
\* subscribes c, as the last effect of that call and after its immediate
\* push attempt; the call emits its immediate push, exactly one when a value
\* is available and none otherwise, before arming the timer, hence before
\* any push driven by that timer.
C10_PushBeforeTimer ==
    [][\A c \in Chars :
          /\ timers'[c] > timers[c]
                => /\ last'.op = "StartNotify" /\ last'.chr = c
                   /\ ~notifying[c] /\ notifying'[c]
                   /\ timers'[c] = timers[c] + 1
          /\ (last'.op = "StartNotify" /\ last'.chr = c /\ ~notifying[c])
                => LET e == last'.effects
                   IN /\ Arms(e) <= 1
                      /\ \A i \in 1 .. Len(e) :
                            e[i].ev = "add_timeout" => i = Len(e)
                      /\ Pushes(e) =
                            IF Available(c) THEN 1 ELSE 0
                      /\ Arms(e) = timers'[c] - timers[c]]_vars

C10_Witness ==
    /\ last.op = "StartNotify"
    /\ Len(last.effects) = 2
    /\ last.effects[1].ev = "PropertiesChanged"
    /\ last.effects[2].ev = "add_timeout"
    /\ timers[last.chr] = 1

\* C11: a timer firing for a subscribed characteristic does not raise, emits
\* exactly one push, returns True so that the timer stays armed, and, when
\* the record at the time of the tick holds a value under the key, the push
\* carries the 4-byte encoding of that value.
C11_TickPushesCurrent ==
    (last.op = "set_measurement_callback" /\ notifying[last.chr])
    => /\ ~last.raised
       /\ last.ret = TRUE
       /\ Pushes(last.effects) = 1
       /\ timers[last.chr] > 0
       /\ (Fresh /\ KeyOf(last.chr) \in DOMAIN file.obj)
             => /\ last.effects[1].value.some
                /\ Len(last.effects[1].value.val) = 4
                /\ Unpack(last.effects[1].value.val) = file.obj[KeyOf(last.chr)]

\* C13: in every reachable state at most one timer is armed per
\* characteristic.
C13_AtMostOneTimer == \A c \in Chars : timers[c] <= 1

\* C14: a push is emitted only by StartNotify or the timer callback, and only
\* while the flag of its characteristic is true.
C14_PushOnlyWhileSubscribed ==
    Pushes(last.effects) > 0
    => /\ last.op \in {"StartNotify", "set_measurement_callback"}
       /\ last.chr \in Chars
       /\ notifying[last.chr]

C14_Witness ==
    /\ last.op = "set_measurement_callback"
    /\ Pushes(last.effects) = 1
    /\ notifying[last.chr]
    /\ last.effects[1].value.some

\* C16: the flag of characteristic c changes only in a StartNotify call on c,
\* to true, or a StopNotify call on c, to false; every other step leaves it
\* unchanged.
C16_FlagFrame ==
    [][\A c \in Chars :
          notifying'[c] # notifying[c]
          => /\ last'.chr = c
             /\ \/ last'.op = "StartNotify" /\ notifying'[c]
                \/ last'.op = "StopNotify" /\ ~notifying'[c]]_vars

C16_Witness ==
    \E c \in Chars :
        /\ notifying[c]
        /\ timers[c] > 0
        /\ last.op = "StopNotify"
        /\ last.chr # c

\* C19: in every reachable state a characteristic whose flag is true has a
\* timer armed.
C19_SubscribedHasTimer == \A c \in Chars : notifying[c] => timers[c] > 0

\* C20: every push carries a 4-byte encoded value; no push carries an absent
\* value.
C20_PushCarriesValue ==
    \A i \in 1 .. Len(last.effects) :
        last.effects[i].ev = "PropertiesChanged"
        => /\ last.effects[i].value.some
           /\ Len(last.effects[i].value.val) = 4

\* C12: the service tree and the advertisement are registered, in that
\* order, before the run loop starts; handlers run only inside the run loop;
\* after an interrupt the process ends with no registration and no armed
\* timer left.
C12_Lifecycle ==
    /\ pc = "app.register" => reg = {}
    /\ pc = "adv.register" => reg = {"app"}
    /\ pc \in {"app.run", "app.quit"} => reg = {"app", "adv"}
    /\ pc = "exit" => reg = {} /\ \A c \in Chars : timers[c] = 0
    /\ pc \in {"app.register", "adv.register"}
          => \A c \in Chars : ~notifying[c] /\ timers[c] = 0

C12_Witness ==
    /\ pc = "exit"
    /\ last.op = "app.quit"
    /\ \E c \in Chars : notifying[c]

\* C15: under fair timer firing, a characteristic that is unsubscribed with
\* timers still armed comes to have no timer armed unless StartNotify is
\* called on it again, and no step on a characteristic that it leaves
\* unsubscribed emits a push.
C15_TimersDisarm ==
    /\ \A c \in Chars :
          (~notifying[c] /\ timers[c] > 0) ~> (notifying[c] \/ timers[c] = 0)
    /\ [][\A c \in Chars :
             (~notifying'[c] /\ last'.chr = c) => Pushes(last'.effects) = 0]_vars

C15_Witness ==
    \E c \in Chars :
        /\ ~notifying[c]
        /\ timers[c] = 1
        /\ last.op = "set_measurement_callback"
        /\ last.chr = c
        /\ ~last.raised
        /\ last.ret = FALSE

\* C17: a store read during which the file was, at each of its steps, absent
\* or a whole record with its "time" field does not fail, and returns
\* nothing or the metrics of one of the records it met.
C17_ConsistentRead ==
    (/\ rd.at = "done"
     /\ RecordOrAbsent(rd.f1) /\ RecordOrAbsent(rd.f2) /\ RecordOrAbsent(rd.f3))
    => /\ ~rd.out.raised
       /\ \/ ~rd.out.val.some
          \/ \E f \in {rd.f1, rd.f2, rd.f3} :
                f.is_file /\ rd.out.val = Some(Metrics(f))

\* C18: when an earlier call on a characteristic found no value, a ReadValue
\* or a subscribed tick on it that runs while the record is fresh and holds
\* an encodable value under its key returns, or pushes, the 4-byte encoding
\* of that value.
C18_SelfHeal ==
    (/\ last.chr \in Chars
     /\ hist.chr = last.chr
     /\ Available(last.chr))
    => /\ last.op = "ReadValue"
          => /\ ~last.raised
             /\ Len(last.ret) = 4
             /\ Unpack(last.ret) = file.obj[KeyOf(last.chr)]
       /\ (last.op = "set_measurement_callback" /\ notifying[last.chr])
          => /\ ~last.raised
             /\ Pushes(last.effects) = 1
             /\ last.effects[1].value.some
             /\ Len(last.effects[1].value.val) = 4
             /\ Unpack(last.effects[1].value.val) = file.obj[KeyOf(last.chr)]

C18_Witness ==
    /\ last.chr \in Chars
    /\ hist.chr = last.chr
    /\ last.op = "set_measurement_callback"
    /\ ~last.raised
    /\ Pushes(last.effects) = 1
    /\ last.effects[1].value.some

====
